---- MODULE Spec2Model ----
(***************************************************************************)
(* CrashReportExceptionHandler (handler/win/crash_report_exception_handler *)
(* .cc): the Windows exception-to-report pipeline.  One invocation of      *)
(* ExceptionHandlerServerException is a sequential program run by a server *)
(* thread; it is modelled one collaborator call per action, with the       *)
(* position of each thread in pc.  The crash database, the process guard,  *)
(* the snapshot, the minidump writer, the upload thread and the metrics    *)
(* sink are collaborators whose results are drawn nondeterministically.    *)
(***************************************************************************)
EXTENDS Integers, Sequences, FiniteSets, TLC

\* ---------------------------------------------------------------- bounds
NumThreads == 2
MaxAttachments == 2

Threads == 1..NumThreads

\* ------------------------------------------------------------- constants
\* An unsigned int (32 bits) is written <<high 16 bits, low 16 bits>>.
\* util/win/termination_codes.h: kTerminationCodeSnapshotFailed = 0xffff7002
kTerminationCodeSnapshotFailed == <<65535, 28674>>

\* 0xC0000005 EXCEPTION_ACCESS_VIOLATION, 0x80000003 EXCEPTION_BREAKPOINT
ExceptionCodes == {<<49152, 5>>, <<32768, 3>>}

TriState == {"kUnset", "kEnabled", "kDisabled"}

\* CrashReportDatabase::OperationStatus (the values a call here can yield)
OperationStatus == {"kNoError", "kFileSystemError", "kDatabaseError"}

CaptureResult == {"kSuccess",
                  "kSnapshotFailed",
                  "kPrepareNewCrashReportFailed",
                  "kMinidumpWriteFailed",
                  "kFinishedWritingCrashReportFailed"}

\* A base::FilePath is the sequence of its components, a component the
\* sequence of its UTF-16 code units (wchar_t on Windows): logs\a<e acute>
\* and <euro sign><U+1F600>, the latter a surrogate pair.
Paths == {<< <<108, 111, 103, 115>>, <<97, 233>> >>, << <<8364, 55357, 56832>> >>}

\* The bytes of the files the paths name.
FileContent(path) == IF Len(path) = 1 THEN <<77, 68, 77, 80, 0>> ELSE <<255, 10>>

\* Client identities the settings collaborator can hold; the zero UUID is 0.
ClientIDs == {101}

\* Messages the dialog's message loop can retrieve.
WindowMessages == {"WM_PAINT", "WM_MOUSEMOVE", "WM_COMMAND_OTHER",
                   "WM_COMMAND_SUBMIT", "WM_CLOSE"}

VARIABLES
  upload_thread_,     \* handler field: TRUE iff an upload thread is configured
  attachments_,       \* handler field: the list of attachment paths
  pc,                 \* per thread: position in ExceptionHandlerServerException
  process,            \* per thread: the monitored process it was called for
  snapshot,           \* per thread: process_snapshot
  termination_code,   \* per thread: <<>> before line 396, then <<code>>
  new_report,         \* per thread: the staged report it owns, 0 = null
  att_index,          \* per thread: position of the range-for over attachments_
  uuid,               \* per thread: local uuid of line 468
  dlg,                \* per thread: the report dialog's window
  msg,                \* per thread: MSG msg of ShowReportDialog
  retval,             \* per thread: <<>> until a return statement, then <<code>>
  reports,            \* crash database: every report it ever staged
  pending,            \* upload thread: UUIDs received by ReportPending
  outcomes,           \* metrics sink, per thread: capture results recorded
  trace               \* per thread: the calls made, in order

vars == <<upload_thread_, attachments_, pc, process, snapshot, termination_code,
          new_report, att_index, uuid, dlg, msg, retval, reports, pending,
          outcomes, trace>>

handler_fields == <<upload_thread_, attachments_>>

\* ------------------------------------------------------------- helpers
RECURSIVE SeqsUpTo(_, _)
SeqsUpTo(S, n) ==
  IF n = 0 THEN {<<>>}
  ELSE LET shorter == SeqsUpTo(S, n - 1)
       IN shorter \cup {Append(s, x) : s \in shorter, x \in S}

FirstComponent(path) == path[1]

\* base::FilePath::BaseName(): the last component of the path
BaseName(path) == path[Len(path)]

HighSurrogate(c) == c >= 55296 /\ c <= 56319

LowSurrogate(c) == c >= 56320 /\ c <= 57343

\* base::WideToUTF8: a code unit below 0x80 gives one byte, below 0x800 two,
\* a surrogate pair four, any other three; a surrogate without its partner is
\* replaced by U+FFFD.
RECURSIVE WideToUTF8(_)
WideToUTF8(wide) ==
  IF wide = <<>> THEN <<>>
  ELSE LET c == wide[1]
           rest == Tail(wide)
       IN IF c < 128 THEN <<c>> \o WideToUTF8(rest)
          ELSE IF c < 2048
            THEN <<192 + (c \div 64), 128 + (c % 64)>> \o WideToUTF8(rest)
          ELSE IF HighSurrogate(c) /\ rest # <<>> /\ LowSurrogate(rest[1])
            THEN LET cp == 65536 + (c - 55296) * 1024 + (rest[1] - 56320)
                 IN <<240 + (cp \div 262144), 128 + ((cp \div 4096) % 64),
                      128 + ((cp \div 64) % 64), 128 + (cp % 64)>>
                    \o WideToUTF8(Tail(rest))
          ELSE IF HighSurrogate(c) \/ LowSurrogate(c)
            THEN <<239, 191, 189>> \o WideToUTF8(rest)
          ELSE <<224 + (c \div 4096), 128 + ((c \div 64) % 64), 128 + (c % 64)>>
               \o WideToUTF8(rest)

CopyFirstByte(content) == SubSeq(content, 1, 1)

\* CopyFileContent(&file_reader, file_writer): what the reader yields up to
\* the end of the file is written to the writer.
CopyFileContent(content) == content

Ev(op, ok, arg) == [op |-> op, ok |-> ok, arg |-> arg]

NoSnapshot == [valid |-> FALSE, exception |-> <<0, 0>>, behavior |-> "kUnset",
               client_id |-> 0, report_id |-> 0, annotated |-> FALSE]

EmptyDump == [status |-> "empty", report_id |-> 0, client_id |-> 0]

Init ==
  /\ upload_thread_ \in BOOLEAN
  /\ attachments_ \in SeqsUpTo(Paths, MaxAttachments)
  /\ pc = [i \in Threads |-> "idle"]
  /\ process = [i \in Threads |-> [suspended |-> FALSE, suspends |-> 0, resumes |-> 0]]
  /\ snapshot = [i \in Threads |-> NoSnapshot]
  /\ termination_code = [i \in Threads |-> <<>>]
  /\ new_report = [i \in Threads |-> 0]
  /\ att_index = [i \in Threads |-> 0]
  /\ uuid = [i \in Threads |-> 0]
  /\ dlg = [i \in Threads |-> "none"]
  /\ msg = [i \in Threads |-> "none"]
  /\ retval = [i \in Threads |-> <<>>]
  /\ reports = <<>>
  /\ pending = <<>>
  /\ outcomes = [i \in Threads |-> <<>>]
  /\ trace = [i \in Threads |-> <<>>]

Goto(i, label) == pc' = [pc EXCEPT ![i] = label]

Log(i, events) == trace' = [trace EXCEPT ![i] = @ \o events]

\* Metrics::ExceptionCaptureResult(result)
ExceptionCaptureResult(i, result) ==
  outcomes' = [outcomes EXCEPT ![i] = Append(@, result)]

ReturnWithoutUnwinding(i, code) ==
  /\ retval' = [retval EXCEPT ![i] = <<code>>]
  /\ Goto(i, "done")

\* return code; : the value is fixed, then the locals are destroyed
Return(i, code) ==
  /\ retval' = [retval EXCEPT ![i] = <<code>>]
  /\ Goto(i, "scope_exit")

\* line 381
ExceptionEncountered(i) ==
  /\ pc[i] = "idle"
  /\ Goto(i, "suspend")
  /\ Log(i, <<Ev("ExceptionEncountered", TRUE, 0)>>)
  /\ UNCHANGED <<handler_fields, process, snapshot, termination_code, new_report,
                 att_index, uuid, dlg, msg, retval, reports, pending, outcomes>>

\* line 383: ScopedProcessSuspend suspend(process). The constructor asks the
\* system to suspend the process; the request can be refused. Nothing is
\* returned to the caller.
ScopedProcessSuspendCtor(i, ok) ==
  process' = [process EXCEPT ![i].suspended = ok, ![i].suspends = @ + 1]

Suspend(i) ==
  /\ pc[i] = "suspend"
  /\ \E ok \in BOOLEAN :
       /\ ScopedProcessSuspendCtor(i, ok)
       /\ Log(i, <<Ev("Suspend", ok, 0)>>)
  /\ Goto(i, "snapshot")
  /\ UNCHANGED <<handler_fields, snapshot, termination_code, new_report,
                 att_index, uuid, dlg, msg, retval, reports, pending, outcomes>>

SnapshotFailureIgnored(initialized) == FALSE

\* line 386: if (!process_snapshot.Initialize(...))
SnapshotFailed(initialized) == ~initialized

\* lines 385-392: process_snapshot.Initialize(...)
Initialize(i) ==
  /\ pc[i] = "snapshot"
  /\ \E ok \in BOOLEAN, code \in ExceptionCodes, behavior \in TriState :
       /\ snapshot' = [snapshot EXCEPT ![i] =
                         IF ok THEN [NoSnapshot EXCEPT !.valid = TRUE,
                                                       !.exception = code,
                                                       !.behavior = behavior]
                               ELSE NoSnapshot]
       /\ IF SnapshotFailed(ok)
            THEN /\ Log(i, <<Ev("Initialize", ok, 0), Ev("ExceptionCaptureResult", TRUE, 0)>>)
                 /\ ExceptionCaptureResult(i, "kSnapshotFailed")
                 /\ Return(i, kTerminationCodeSnapshotFailed)
            ELSE /\ Log(i, <<Ev("Initialize", ok, 0)>>)
                 /\ Goto(i, "code")
                 /\ UNCHANGED <<outcomes, retval>>
  /\ UNCHANGED <<handler_fields, process, termination_code, new_report,
                 att_index, uuid, dlg, msg, reports, pending>>

ReadExceptionCodeLowWord(i) == <<0, snapshot[i].exception[2]>>

\* lines 396-397: termination_code = process_snapshot.Exception()->Exception()
ReadExceptionCode(i) == snapshot[i].exception

ExceptionCode(i) ==
  /\ pc[i] = "code"
  /\ termination_code' = [termination_code EXCEPT ![i] = <<ReadExceptionCode(i)>>]
  /\ Log(i, <<Ev("ExceptionCode", TRUE, 0)>>)
  /\ Goto(i, "options")
  /\ UNCHANGED <<handler_fields, process, snapshot, new_report, att_index, uuid,
                 dlg, msg, retval, reports, pending, outcomes>>

ReportingEnabledUnlessUnset(i) == snapshot[i].behavior # "kUnset"

\* lines 405-407: the handler-behavior test that guards report generation
ReportingEnabled(i) == snapshot[i].behavior # "kDisabled"

GetCrashpadOptions(i) ==
  /\ pc[i] = "options"
  /\ Log(i, <<Ev("GetCrashpadOptions", TRUE, 0)>>)
  /\ IF ReportingEnabled(i) THEN Goto(i, "dialog") ELSE Goto(i, "success")
  /\ UNCHANGED <<handler_fields, process, snapshot, termination_code, new_report,
                 att_index, uuid, dlg, msg, retval, reports, pending, outcomes>>

\* lines 297-358 (called at line 410): the dialog window is created; hwnd is
\* null when CreateWindowExW fails.
ShowReportDialog(i) ==
  /\ pc[i] = "dialog"
  /\ \E created \in BOOLEAN :
       dlg' = [dlg EXCEPT ![i] = IF created THEN "open" ELSE "nowindow"]
  /\ Log(i, <<Ev("ShowReportDialog", TRUE, 0)>>)
  /\ Goto(i, "pump")
  /\ UNCHANGED <<handler_fields, process, snapshot, termination_code, new_report,
                 att_index, uuid, msg, retval, reports, pending, outcomes>>

\* lines 112-291: ReportWndProc. Submit and WM_CLOSE destroy the window, whose
\* WM_DESTROY posts the quit message; everything else goes to DefWindowProc.
ReportWndProc(window, m) ==
  IF window = "open" /\ m \in {"WM_COMMAND_SUBMIT", "WM_CLOSE"}
    THEN "destroyed"
    ELSE window

\* Messages that can reach the thread: those for the window need a window.
Deliverable(window) ==
  IF window = "open" THEN WindowMessages ELSE {"WM_PAINT", "WM_MOUSEMOVE"}

\* lines 363-367: one turn of while (GetMessage(&msg, nullptr, 0, 0) > 0).
\* GetMessage yields 0 for the posted quit message and -1 on error; both end
\* the loop, and ShowReportDialog returns (line 374).
GetMessage(i) ==
  /\ pc[i] = "pump"
  /\ \/ /\ dlg[i] = "destroyed"
        /\ dlg' = [dlg EXCEPT ![i] = "closed"]
        /\ msg' = [msg EXCEPT ![i] = "none"]
        /\ Goto(i, "settings")
     \/ /\ dlg[i] # "destroyed"
        /\ \E m \in Deliverable(dlg[i]) :
             /\ msg' = [msg EXCEPT ![i] = m]
             /\ dlg' = [dlg EXCEPT ![i] = ReportWndProc(@, m)]
        /\ UNCHANGED pc
     \/ /\ dlg[i] # "destroyed"
        /\ dlg' = [dlg EXCEPT ![i] = "closed"]
        /\ msg' = [msg EXCEPT ![i] = "none"]
        /\ Goto(i, "settings")
  /\ UNCHANGED <<handler_fields, process, snapshot, termination_code, new_report,
                 att_index, uuid, retval, reports, pending, outcomes, trace>>

ClientIDWhenSettings(settings, got, id) == IF settings THEN id ELSE 0

\* lines 412-419: UUID client_id is all zeroes by default; it is filled in
\* only when GetSettings() returned an object and its GetClientID() worked.
ClientID(settings, got, id) == IF settings /\ got THEN id ELSE 0

\* lines 412-422: client identity and annotations.
GetSettings(i) ==
  /\ pc[i] = "settings"
  /\ \E settings \in BOOLEAN, got \in BOOLEAN, id \in ClientIDs :
       LET client_id == ClientID(settings, got, id)
       IN /\ (~settings => ~got)
          /\ snapshot' = [snapshot EXCEPT ![i].client_id = client_id,
                                          ![i].annotated = TRUE]
          /\ Log(i, <<Ev("GetSettings", settings, 0)>> \o
                    (IF settings THEN <<Ev("GetClientID", got, client_id)>> ELSE <<>>) \o
                    <<Ev("SetClientID", TRUE, client_id),
                      Ev("SetAnnotationsSimpleMap", TRUE, 0)>>)
  /\ Goto(i, "prepare")
  /\ UNCHANGED <<handler_fields, process, termination_code, new_report, att_index,
                 uuid, dlg, msg, retval, reports, pending, outcomes>>

\* ------------------------------------------------- crash database (4.3)
\* A staged report: its identifier is its position in reports.
StagedReport(i) ==
  [state |-> "staged", owner |-> i, dump |-> EmptyDump, attachments |-> <<>>]

\* The destructor of a NewReport that was never committed removes it.
Abandon(rs, r) == [rs EXCEPT ![r].state = "abandoned"]

\* A successful finish makes the report a completed report of the database.
Commit(rs, r) == [rs EXCEPT ![r].state = "completed"]

\* line 427: if (database_status != CrashReportDatabase::kNoError)
PrepareFailed(database_status) == database_status # "kNoError"

\* lines 424-432: database_->PrepareNewCrashReport(&new_report)
PrepareNewCrashReport(i) ==
  /\ pc[i] = "prepare"
  /\ \E database_status \in OperationStatus :
       LET ok == database_status = "kNoError"
       IN /\ reports' = IF ok THEN Append(reports, StagedReport(i)) ELSE reports
          /\ new_report' = [new_report EXCEPT ![i] = IF ok THEN Len(reports) + 1 ELSE 0]
          /\ IF PrepareFailed(database_status)
               THEN /\ Log(i, <<Ev("PrepareNewCrashReport", ok, 0),
                                Ev("ExceptionCaptureResult", TRUE, 0)>>)
                    /\ ExceptionCaptureResult(i, "kPrepareNewCrashReportFailed")
                    /\ Return(i, termination_code[i][1])
               ELSE /\ Log(i, <<Ev("PrepareNewCrashReport", ok, Len(reports) + 1)>>)
                    /\ Goto(i, "setid")
                    /\ UNCHANGED <<outcomes, retval>>
  /\ UNCHANGED <<handler_fields, process, snapshot, termination_code, att_index,
                 uuid, dlg, msg, pending>>

ReportIDFromUUID(i) == uuid[i]

\* line 434: new_report->ReportID()
ReportID(i) == new_report[i]

\* line 434: process_snapshot.SetReportID(new_report->ReportID())
SetReportID(i) ==
  /\ pc[i] = "setid"
  /\ snapshot' = [snapshot EXCEPT ![i].report_id = ReportID(i)]
  /\ Log(i, <<Ev("SetReportID", TRUE, ReportID(i))>>)
  /\ Goto(i, "write")
  /\ UNCHANGED <<handler_fields, process, termination_code, new_report, att_index,
                 uuid, dlg, msg, retval, reports, pending, outcomes>>

\* lines 436-446: the minidump is built from the snapshot and written to the
\* staged report's writer; a failed write leaves a partial dump behind.
WriteFailureIgnored(written) == FALSE

\* line 441: if (!minidump.WriteEverything(new_report->Writer()))
WriteFailed(written) == ~written

WriteEverything(i) ==
  /\ pc[i] = "write"
  /\ \E ok \in BOOLEAN :
       /\ reports' = [reports EXCEPT ![new_report[i]].dump =
                        [status |-> IF ok THEN "complete" ELSE "partial",
                         report_id |-> snapshot[i].report_id,
                         client_id |-> snapshot[i].client_id]]
       /\ IF WriteFailed(ok)
            THEN /\ Log(i, <<Ev("WriteEverything", ok, new_report[i]),
                             Ev("ExceptionCaptureResult", TRUE, 0)>>)
                 /\ ExceptionCaptureResult(i, "kMinidumpWriteFailed")
                 /\ Return(i, termination_code[i][1])
                 /\ UNCHANGED att_index
            ELSE /\ Log(i, <<Ev("WriteEverything", ok, new_report[i])>>)
                 /\ att_index' = [att_index EXCEPT ![i] = 1]
                 /\ Goto(i, "attach")
                 /\ UNCHANGED <<outcomes, retval>>
  /\ UNCHANGED <<handler_fields, process, snapshot, termination_code, new_report,
                 uuid, dlg, msg, pending>>

BreakAtAttachment(i) == Len(attachments_) + 1

\* lines 453 and 462: continue; the loop goes on with the next attachment
SkipAttachment(i) == att_index[i] + 1

\* lines 448-466: one turn of the range-for over *attachments_
CopyAttachment(i) ==
  /\ pc[i] = "attach"
  /\ att_index[i] <= Len(attachments_)
  /\ LET attachment == attachments_[att_index[i]]
         filename == BaseName(attachment)
     IN \E opened \in BOOLEAN, created \in BOOLEAN :
          /\ (~opened => ~created)
          /\ Log(i, <<Ev("Open", opened, att_index[i])>> \o
                    (IF opened THEN <<Ev("AddAttachment", created, att_index[i])>> ELSE <<>>) \o
                    (IF created THEN <<Ev("CopyFileContent", TRUE, att_index[i])>> ELSE <<>>))
          /\ reports' = IF created
                          THEN [reports EXCEPT ![new_report[i]].attachments =
                                  Append(@, [name |-> WideToUTF8(filename),
                                             source |-> attachment,
                                             bytes |-> CopyFileContent(FileContent(attachment))])]
                          ELSE reports
          /\ att_index' = [att_index EXCEPT ![i] =
                             IF created THEN att_index[i] + 1 ELSE SkipAttachment(i)]
  /\ UNCHANGED <<handler_fields, pc, process, snapshot, termination_code, new_report,
                 uuid, dlg, msg, retval, pending, outcomes>>

\* lines 468-476: database_->FinishedWritingCrashReport(std::move(new_report),
\* &uuid). The report is given up either way; on success it becomes a completed
\* report and its identifier is stored to uuid.
FinishFailedOnFileSystemError(database_status) == database_status = "kFileSystemError"

\* line 471: if (database_status != CrashReportDatabase::kNoError)
FinishFailed(database_status) == database_status # "kNoError"

FinishedWritingCrashReport(i) ==
  /\ pc[i] = "attach"
  /\ att_index[i] > Len(attachments_)
  /\ \E database_status \in OperationStatus :
       LET ok == database_status = "kNoError"
       IN /\ new_report' = [new_report EXCEPT ![i] = 0]
          /\ reports' = IF ok THEN Commit(reports, new_report[i])
                              ELSE Abandon(reports, new_report[i])
          /\ uuid' = [uuid EXCEPT ![i] = IF ok THEN new_report[i] ELSE @]
          /\ IF FinishFailed(database_status)
               THEN /\ Log(i, <<Ev("FinishedWritingCrashReport", ok, new_report[i]),
                                Ev("ExceptionCaptureResult", TRUE, 0)>>)
                    /\ ExceptionCaptureResult(i, "kFinishedWritingCrashReportFailed")
                    /\ Return(i, termination_code[i][1])
               ELSE /\ Log(i, <<Ev("FinishedWritingCrashReport", ok, new_report[i])>>)
                    /\ Goto(i, "notify")
                    /\ UNCHANGED <<outcomes, retval>>
  /\ UNCHANGED <<handler_fields, process, snapshot, termination_code, att_index,
                 dlg, msg, pending>>

ReportPendingMovedReport(i) == new_report[i]

ReportPendingLatestReport(i) == Len(reports)

\* line 479: the argument of ReportPending
ReportPendingArgument(i) == uuid[i]

\* lines 478-480: if (upload_thread_) upload_thread_->ReportPending(uuid)

ReportPending(i) ==
  /\ pc[i] = "notify"
  /\ IF upload_thread_
       THEN /\ pending' = Append(pending, ReportPendingArgument(i))
            /\ Log(i, <<Ev("ReportPending", TRUE, ReportPendingArgument(i))>>)
       ELSE UNCHANGED <<pending, trace>>
  /\ Goto(i, "success")
  /\ UNCHANGED <<handler_fields, process, snapshot, termination_code, new_report,
                 att_index, uuid, dlg, msg, retval, reports, outcomes>>

\* lines 483-484
Success(i) ==
  /\ pc[i] = "success"
  /\ ExceptionCaptureResult(i, "kSuccess")
  /\ Log(i, <<Ev("ExceptionCaptureResult", TRUE, 0)>>)
  /\ Return(i, termination_code[i][1])
  /\ UNCHANGED <<handler_fields, process, snapshot, termination_code, new_report,
                 att_index, uuid, dlg, msg, reports, pending>>

\* ~ScopedProcessSuspend (4.1): the process is resumed when the guard's scope
\* ends.
ScopedProcessSuspendDtor(i) ==
  process' = [process EXCEPT ![i].suspended = FALSE, ![i].resumes = @ + 1]

\* Leaving the function after any return statement (lines 391, 431, 445, 475,
\* 484): the locals are destroyed in reverse order of construction, a report
\* still owned by new_report first, the suspension guard of line 383 last.
ScopeExit(i) ==
  /\ pc[i] = "scope_exit"
  /\ reports' = IF new_report[i] # 0 THEN Abandon(reports, new_report[i]) ELSE reports
  /\ new_report' = [new_report EXCEPT ![i] = 0]
  /\ ScopedProcessSuspendDtor(i)
  /\ Log(i, <<Ev("Resume", TRUE, 0)>>)
  /\ Goto(i, "done")
  /\ UNCHANGED <<handler_fields, snapshot, termination_code, att_index, uuid, dlg,
                 msg, retval, pending, outcomes>>

\* One notification is delivered, to any one of the server's threads.
NoCallInProgress == \A j \in Threads : pc[j] = "idle"

Step(i) ==
  \/ Suspend(i)
  \/ Initialize(i)
  \/ ExceptionCode(i)
  \/ GetCrashpadOptions(i)
  \/ ShowReportDialog(i)
  \/ GetMessage(i)
  \/ GetSettings(i)
  \/ PrepareNewCrashReport(i)
  \/ SetReportID(i)
  \/ WriteEverything(i)
  \/ CopyAttachment(i)
  \/ FinishedWritingCrashReport(i)
  \/ ReportPending(i)
  \/ Success(i)
  \/ ScopeExit(i)

Next ==
  \E i \in Threads :
    \/ NoCallInProgress /\ ExceptionEncountered(i)
    \/ Step(i)

Spec == Init /\ [][Next]_vars

\* Every call the invocation makes returns: a thread that can take a step
\* eventually takes one.
LiveSpec == Spec /\ \A i \in Threads : WF_vars(Step(i))

\* ------------------------------------------------- concurrent invocations
\* The exception handler server calls ExceptionHandlerServerException from
\* one thread per client: two crashing processes are handled at once.
ConcThreads == {1, 2}

\* The exception each of the two processes crashed with.
ConcException(i) == IF i = 1 THEN <<49152, 5>> ELSE <<32768, 3>>

\* lines 36-46: a handler with an upload thread and one attachment
ConcInit ==
  /\ Init
  /\ upload_thread_
  /\ Len(attachments_) = 1

\* The steps of call i in the concurrent runs. The suspension is granted, the
\* snapshot of process i shows the exception of process i, the dialog window
\* is created and the only message its loop sees is the user closing it; the
\* other collaborators answer as they like.
ConcStep(i) ==
  \/ Suspend(i) /\ process'[i].suspended
  \/ Initialize(i) /\ (snapshot'[i].valid => snapshot'[i].exception = ConcException(i))
  \/ ExceptionCode(i)
  \/ GetCrashpadOptions(i)
  \/ ShowReportDialog(i) /\ dlg'[i] = "open"
  \/ GetMessage(i) /\ msg'[i] \in {"none", "WM_CLOSE"}
  \/ GetSettings(i)
  \/ PrepareNewCrashReport(i)
  \/ SetReportID(i)
  \/ WriteEverything(i)
  \/ CopyAttachment(i)
  \/ FinishedWritingCrashReport(i)
  \/ ReportPending(i)
  \/ Success(i)
  \/ ScopeExit(i)

ConcNext ==
  \E i \in ConcThreads :
    \/ ExceptionEncountered(i)
    \/ ConcStep(i)

ConcSpec == ConcInit /\ [][ConcNext]_vars

TypeOK ==
  /\ upload_thread_ \in BOOLEAN
  /\ attachments_ \in SeqsUpTo(Paths, MaxAttachments)
  /\ \A i \in Threads :
       /\ pc[i] \in {"idle", "suspend", "snapshot", "code", "options", "dialog",
                     "pump", "settings", "prepare", "setid", "write", "attach",
                     "notify", "success", "scope_exit", "done"}
       /\ process[i].suspended \in BOOLEAN
       /\ process[i].resumes \in 0..1
       /\ snapshot[i].behavior \in TriState
       /\ Len(termination_code[i]) <= 1
       /\ Len(retval[i]) <= 1
       /\ new_report[i] \in 0..Len(reports)
       /\ att_index[i] \in 0..(Len(attachments_) + 1)
       /\ uuid[i] \in 0..Len(reports)
       /\ dlg[i] \in {"none", "open", "nowindow", "destroyed", "closed"}
       /\ \A k \in 1..Len(outcomes[i]) : outcomes[i][k] \in CaptureResult
  /\ Len(reports) <= NumThreads

\* ------------------------------------------------------ reading the trace
Positions(i, op) == {k \in DOMAIN trace[i] : trace[i][k].op = op}

Did(i, op) == \E k \in DOMAIN trace[i] : trace[i][k].op = op

DidOk(i, op) == \E k \in DOMAIN trace[i] : trace[i][k].op = op /\ trace[i][k].ok

DidFail(i, op) == \E k \in DOMAIN trace[i] : trace[i][k].op = op /\ ~trace[i][k].ok

Times(i, op) == Cardinality(Positions(i, op))

DatabaseCalls == {"GetSettings", "PrepareNewCrashReport", "AddAttachment",
                  "FinishedWritingCrashReport"}

NoDatabaseCall(i) == \A op \in DatabaseCalls : ~Did(i, op)

\* The reports staged by call i, and the UUIDs the upload thread holds of them.
OwnReports(i) == {r \in DOMAIN reports : reports[r].owner = i}

Uploaded(i) == {k \in DOMAIN pending : pending[k] \in OwnReports(i)}

Returned(i) == pc[i] = "done"

\* ------------------------------------------------------------------ C1
\* C1: whenever the snapshot's Initialize succeeded, the code the invocation
\* returns is the exception code of the snapshot's exception descriptor,
\* whatever the later stages did; the local termination_code holds that code
\* from the moment it is read and is never assigned again.
C1_TerminationCodeIsExceptionCode ==
  /\ [](\A i \in Threads :
          /\ termination_code[i] # <<>> => termination_code[i] = <<snapshot[i].exception>>
          /\ (DidOk(i, "Initialize") /\ retval[i] # <<>>)
               => retval[i] = <<snapshot[i].exception>>
          /\ (DidOk(i, "Initialize") /\ Returned(i)) => retval[i] # <<>>)
  /\ [][\A i \in Threads :
          /\ termination_code[i] # <<>> => termination_code'[i] = termination_code[i]
          /\ retval[i] # <<>> => retval'[i] = retval[i]
          /\ snapshot[i].valid => snapshot'[i].exception = snapshot[i].exception]_vars

\* A call has returned the exception code although its report could not be
\* finished.
C1_Witness ==
  \E i \in Threads :
    /\ Returned(i)
    /\ DidFail(i, "FinishedWritingCrashReport")
    /\ retval[i] = <<snapshot[i].exception>>

\* ------------------------------------------------------------------ C2
\* C2: when the snapshot's Initialize fails, the call returns
\* kTerminationCodeSnapshotFailed, the one outcome recorded is kSnapshotFailed,
\* and the call makes no crash database call and no upload notification.
C2_SnapshotFailure ==
  \A i \in Threads :
    DidFail(i, "Initialize") =>
      /\ retval[i] = <<kTerminationCodeSnapshotFailed>>
      /\ outcomes[i] = <<"kSnapshotFailed">>
      /\ NoDatabaseCall(i)
      /\ ~Did(i, "ReportPending")
      /\ OwnReports(i) = {}
      /\ pc[i] \in {"scope_exit", "done"}

C2_Witness ==
  \E i \in Threads : Returned(i) /\ DidFail(i, "Initialize")

\* ------------------------------------------------------------------ C3
\* C3: when the options read from the snapshot say kDisabled, the call never
\* calls PrepareNewCrashReport, makes no other database call and no upload
\* notification, records kSuccess and returns the snapshot's exception code.
C3_DisabledReporting ==
  \A i \in Threads :
    (snapshot[i].valid /\ snapshot[i].behavior = "kDisabled") =>
      /\ NoDatabaseCall(i)
      /\ ~Did(i, "ReportPending")
      /\ OwnReports(i) = {}
      /\ Returned(i) => /\ outcomes[i] = <<"kSuccess">>
                        /\ retval[i] = <<snapshot[i].exception>>

C3_Witness ==
  \E i \in Threads :
    Returned(i) /\ snapshot[i].valid /\ snapshot[i].behavior = "kDisabled"

\* ------------------------------------------------------------------ C4
\* C4: when PrepareNewCrashReport, WriteEverything or
\* FinishedWritingCrashReport fails in a call, that call never calls
\* ReportPending: the upload thread receives no UUID from it.
C4_NoUploadAfterFailure ==
  \A i \in Threads :
    (\/ DidFail(i, "PrepareNewCrashReport")
     \/ DidFail(i, "WriteEverything")
     \/ DidFail(i, "FinishedWritingCrashReport")) =>
      /\ ~Did(i, "ReportPending")
      /\ Uploaded(i) = {}

C4_Witness ==
  \E i \in Threads :
    /\ Returned(i)
    /\ upload_thread_
    /\ DidFail(i, "FinishedWritingCrashReport")

\* ------------------------------------------------------------------ C5
\* C5: the suspension guard that suspended the process at the start of a call
\* resumes it exactly once, on every way out of the call: never before the
\* call is over, never twice, and the process is not suspended once the call
\* has returned.
C5_ResumedExactlyOnce ==
  \A i \in Threads :
    /\ process[i].resumes = Times(i, "Resume")
    /\ process[i].resumes <= 1
    /\ ~Returned(i) => process[i].resumes = 0
    /\ Returned(i) => ~process[i].suspended
    /\ (Returned(i) /\ DidOk(i, "Suspend")) => process[i].resumes = 1

\* The call has returned on the minidump-write-failed path, and the process it
\* had suspended runs again.
C5_Witness ==
  \E i \in Threads :
    /\ Returned(i)
    /\ DidOk(i, "Suspend")
    /\ outcomes[i] = <<"kMinidumpWriteFailed">>
    /\ process[i].resumes = 1
    /\ ~process[i].suspended

\* ------------------------------------------------------------------ C6
\* C6: a report is visible (completed in the database, or known to the upload
\* thread) only if FinishedWritingCrashReport succeeded for it, after its
\* minidump and attachments were written; a report still owned by a call is
\* only staged, and a staged report whose serialization or finish failed is
\* abandoned and never becomes visible.
C6_OnlyFinishedReportsVisible ==
  /\ \A r \in DOMAIN reports :
       LET o == reports[r].owner
       IN /\ reports[r].state = "completed" =>
               /\ \E k \in Positions(o, "FinishedWritingCrashReport") :
                    trace[o][k].ok /\ trace[o][k].arg = r
               /\ reports[r].dump.status = "complete"
               /\ DidOk(o, "WriteEverything")
               /\ Times(o, "Open") = Len(attachments_)
               /\ new_report[o] # r
          /\ new_report[o] = r => reports[r].state = "staged"
          /\ reports[r].state # "completed" => \A k \in DOMAIN pending : pending[k] # r
          /\ Returned(o) => reports[r].state \in {"completed", "abandoned"}
          /\ (Returned(o) /\ (DidFail(o, "WriteEverything")
                              \/ DidFail(o, "FinishedWritingCrashReport")))
               => reports[r].state = "abandoned"
  /\ \A k \in DOMAIN pending :
       /\ pending[k] \in DOMAIN reports
       /\ reports[pending[k]].state = "completed"

\* A report was staged, its serialization failed, and the call returned: the
\* report is abandoned and the upload thread never heard of it.
C6_Witness ==
  \E i \in Threads, r \in DOMAIN reports :
    /\ Returned(i)
    /\ upload_thread_
    /\ reports[r].owner = i
    /\ reports[r].dump.status = "partial"
    /\ reports[r].state = "abandoned"
    /\ pending = <<>>

\* ------------------------------------------------------------------ C7
\* C7: a call has produced a crash report exactly when all of stages 7 to 13
\* ran to completion in it: identity resolution, enrichment of the snapshot,
\* prepare, report-id attachment, serialization, the attachment loop and
\* finish (a zero client id and a skipped attachment do not fail their stage);
\* a call that returned has left no report of its own that is neither
\* completed with a complete minidump nor abandoned.
Produced(i) == \E r \in OwnReports(i) : reports[r].state = "completed"

AllStagesSucceeded(i) ==
  /\ Did(i, "SetClientID")
  /\ Did(i, "SetAnnotationsSimpleMap")
  /\ DidOk(i, "PrepareNewCrashReport")
  /\ Did(i, "SetReportID")
  /\ DidOk(i, "WriteEverything")
  /\ Times(i, "Open") = Len(attachments_)
  /\ DidOk(i, "FinishedWritingCrashReport")

C7_ReportIffAllStagesSucceed ==
  \A i \in Threads :
    /\ Produced(i) => AllStagesSucceeded(i)
    /\ (Returned(i) /\ AllStagesSucceeded(i)) => Produced(i)
    /\ Returned(i) =>
         \A r \in OwnReports(i) :
           \/ reports[r].state = "abandoned"
           \/ reports[r].state = "completed" /\ reports[r].dump.status = "complete"

C7_Witness ==
  \E i \in Threads :
    /\ Returned(i)
    /\ Produced(i)
    /\ AllStagesSucceeded(i)

\* ------------------------------------------------------------------ C8
\* C8: an attachment that cannot be opened, or whose slot AddAttachment
\* cannot create, is skipped and nothing else: every attachment of the list is
\* tried once, in order, the others are copied, FinishedWritingCrashReport is
\* still called, the returned code is the exception code, and the outcome
\* recorded is that of the finish step, never a failure owed to the
\* attachment.
Copied(i) ==
  {trace[i][p].arg :
     p \in {q \in DOMAIN trace[i] : trace[i][q].op = "AddAttachment" /\ trace[i][q].ok}}

RECURSIVE KeptOf(_, _)
KeptOf(copied, n) ==
  IF n = 0 THEN <<>>
  ELSE KeptOf(copied, n - 1) \o
       (IF n \in copied
          THEN <<[name |-> WideToUTF8(BaseName(attachments_[n])),
                  source |-> attachments_[n],
                  bytes |-> CopyFileContent(FileContent(attachments_[n]))]>>
          ELSE <<>>)

Kept(i, n) == KeptOf(Copied(i), n)

LoopLeft(i) == pc[i] \in {"notify", "success", "scope_exit", "done"}

C8_AttachmentFailureIsolated ==
  \A i \in Threads :
    DidOk(i, "WriteEverything") =>
      /\ \A p, q \in Positions(i, "Open") : p < q => trace[i][p].arg < trace[i][q].arg
      /\ \A r \in OwnReports(i) :
           reports[r].attachments = Kept(i, Times(i, "Open"))
      /\ LoopLeft(i) =>
           /\ \A k \in 1..Len(attachments_) :
                \E p \in Positions(i, "Open") : trace[i][p].arg = k
           /\ Times(i, "Open") = Len(attachments_)
           /\ Times(i, "FinishedWritingCrashReport") = 1
      /\ Returned(i) =>
           /\ retval[i] = <<snapshot[i].exception>>
           /\ outcomes[i] = IF DidOk(i, "FinishedWritingCrashReport")
                              THEN <<"kSuccess">>
                              ELSE <<"kFinishedWritingCrashReportFailed">>

\* The first attachment could not be opened, the second was copied, and the
\* report was committed with the second alone.
C8_Witness ==
  \E i \in Threads, r \in DOMAIN reports :
    /\ Returned(i)
    /\ reports[r].owner = i
    /\ reports[r].state = "completed"
    /\ Len(attachments_) = 2
    /\ trace[i][CHOOSE p \in Positions(i, "Open") : trace[i][p].arg = 1].ok = FALSE
    /\ Copied(i) = {2}
    /\ Len(reports[r].attachments) = 1
    /\ outcomes[i] = <<"kSuccess">>

\* ------------------------------------------------------------------ C9
\* C9: when the snapshot succeeded, reporting is not disabled, and prepare,
\* serialization and finish succeeded, the call records kSuccess and, with an
\* upload thread configured, calls ReportPending exactly once, after
\* FinishedWritingCrashReport, with the UUID that call produced; with no
\* upload thread it notifies nobody. ReportPending is never called before a
\* successful finish.
FinishedUUID(i) ==
  {r \in OwnReports(i) : reports[r].state = "completed"}

C9_UploadNotifiedOnce ==
  \A i \in Threads :
    /\ Times(i, "ReportPending") <= 1
    /\ \A p \in Positions(i, "ReportPending") :
         \E f \in Positions(i, "FinishedWritingCrashReport") :
           /\ f < p
           /\ trace[i][f].ok
           /\ trace[i][p].arg = trace[i][f].arg
           /\ FinishedUUID(i) = {trace[i][p].arg}
           /\ \E k \in DOMAIN pending : pending[k] = trace[i][p].arg
    /\ Cardinality(Uploaded(i)) = Times(i, "ReportPending")
    /\ (/\ Returned(i)
        /\ DidOk(i, "Initialize")
        /\ snapshot[i].behavior # "kDisabled"
        /\ DidOk(i, "PrepareNewCrashReport")
        /\ DidOk(i, "WriteEverything")
        /\ DidOk(i, "FinishedWritingCrashReport")) =>
         /\ outcomes[i] = <<"kSuccess">>
         /\ Times(i, "ReportPending") = IF upload_thread_ THEN 1 ELSE 0
         /\ ~upload_thread_ => Uploaded(i) = {}

C9_Witness ==
  \E i \in Threads :
    /\ Returned(i)
    /\ upload_thread_
    /\ Times(i, "ReportPending") = 1
    /\ pending = <<uuid[i]>>
    /\ outcomes[i] = <<"kSuccess">>

\* ----------------------------------------------------------------- C10
\* C10: every call that has started eventually returns a termination code,
\* whatever the stages yield and however long the attachment list is, as long
\* as every call it makes returns.
C10_EveryCallReturns ==
  \A i \in Threads : (pc[i] # "idle") ~> (Returned(i) /\ retval[i] # <<>>)

\* ----------------------------------------------------------------- C11
\* C11: when the guard's constructor could not suspend the process, the call
\* reports that as an outcome of its own and does not go on to the snapshot:
\* Initialize is never called after a failed suspension, and a call that
\* returns after one has recorded an outcome that names the suspension.
SuspensionOutcomes == CaptureResult \ {"kSuccess",
                                       "kSnapshotFailed",
                                       "kPrepareNewCrashReportFailed",
                                       "kMinidumpWriteFailed",
                                       "kFinishedWritingCrashReportFailed"}

C11_SuspensionFailureSurfaces ==
  \A i \in Threads :
    DidFail(i, "Suspend") =>
      /\ ~Did(i, "Initialize")
      /\ Returned(i) => \E k \in DOMAIN outcomes[i] : outcomes[i][k] \in SuspensionOutcomes

\* ----------------------------------------------------------------- C12
\* C12: a failed terminal stage cuts the rest of the call short. After a
\* failed Initialize only the recording of the outcome and the return (with
\* the guard's release) follow; after a failed PrepareNewCrashReport there is
\* no SetReportID, WriteEverything, AddAttachment,
\* FinishedWritingCrashReport or ReportPending; after a failed WriteEverything
\* no AddAttachment, FinishedWritingCrashReport or ReportPending; after a
\* failed FinishedWritingCrashReport no ReportPending.
NothingAfterFailure(i, failed, forbidden) ==
  \A p \in DOMAIN trace[i] :
    (trace[i][p].op = failed /\ ~trace[i][p].ok)
      => \A q \in (p + 1)..Len(trace[i]) : trace[i][q].op \notin forbidden

AllCalls(i) == {trace[i][k].op : k \in DOMAIN trace[i]}

C12_FailureShortCircuits ==
  \A i \in Threads :
    /\ NothingAfterFailure(i, "Initialize",
                           AllCalls(i) \ {"ExceptionCaptureResult", "Resume"})
    /\ NothingAfterFailure(i, "PrepareNewCrashReport",
                           {"SetReportID", "WriteEverything", "Open", "AddAttachment",
                            "CopyFileContent", "FinishedWritingCrashReport",
                            "ReportPending"})
    /\ NothingAfterFailure(i, "WriteEverything",
                           {"Open", "AddAttachment", "CopyFileContent",
                            "FinishedWritingCrashReport", "ReportPending"})
    /\ NothingAfterFailure(i, "FinishedWritingCrashReport", {"ReportPending"})
    /\ (\/ DidFail(i, "Initialize")
        \/ DidFail(i, "PrepareNewCrashReport")
        \/ DidFail(i, "WriteEverything")
        \/ DidFail(i, "FinishedWritingCrashReport")) => pc[i] \in {"scope_exit", "done"}

\* The serialization failed with attachments configured and an upload thread
\* waiting, and the call has returned.
C12_Witness ==
  \E i \in Threads :
    /\ Returned(i)
    /\ upload_thread_
    /\ Len(attachments_) > 0
    /\ DidFail(i, "WriteEverything")

\* ----------------------------------------------------------------- C13
Pipeline ==
  <<"ExceptionEncountered", "Suspend", "Initialize", "ExceptionCode",
    "GetCrashpadOptions", "ShowReportDialog", "GetSettings", "GetClientID",
    "SetClientID", "SetAnnotationsSimpleMap", "PrepareNewCrashReport",
    "SetReportID", "WriteEverything", "Open", "AddAttachment", "CopyFileContent",
    "FinishedWritingCrashReport", "ReportPending">>

PipelineCalls == {Pipeline[k] : k \in DOMAIN Pipeline}

AttachmentCalls == {"Open", "AddAttachment", "CopyFileContent"}

RankOf == [op \in PipelineCalls |-> CHOOSE k \in DOMAIN Pipeline : Pipeline[k] = op]

Rank(op) == RankOf[op]

Before(e, f) ==
  IF e.op \in AttachmentCalls /\ f.op \in AttachmentCalls
    THEN e.arg < f.arg \/ (e.arg = f.arg /\ Rank(e.op) < Rank(f.op))
    ELSE Rank(e.op) < Rank(f.op)

\* The call at position p of call i is where the pipeline has it.
InPlace(i, p) ==
  LET e == trace[i][p]
  IN /\ p = 1 => e.op = "ExceptionEncountered"
     /\ p = 2 => e.op = "Suspend"
     /\ p = 3 => e.op = "Initialize"
     /\ (p > 1 /\ e.op \in PipelineCalls) =>
          /\ trace[i][p - 1].op \in PipelineCalls
          /\ Before(trace[i][p - 1], e)
     /\ e.op = "PrepareNewCrashReport" =>
          Did(i, "ExceptionCode") /\ Did(i, "SetClientID") /\ Did(i, "SetAnnotationsSimpleMap")
     /\ e.op = "SetReportID" =>
          /\ trace[i][p - 1] = Ev("PrepareNewCrashReport", TRUE, e.arg)
          /\ e.arg \in OwnReports(i)
     /\ e.op = "WriteEverything" =>
          /\ trace[i][p - 1].op = "SetReportID"
          /\ reports[e.arg].dump.report_id = e.arg
     /\ e.op = "Open" => DidOk(i, "WriteEverything")
     /\ e.op = "FinishedWritingCrashReport" =>
          /\ DidOk(i, "WriteEverything")
          /\ \A k \in 1..Len(attachments_) :
               \E q \in 1..(p - 1) : trace[i][q].op = "Open" /\ trace[i][q].arg = k
     /\ e.op = "ReportPending" => DidOk(i, "FinishedWritingCrashReport")

\* C13: the calls of one invocation come in the order of the pipeline, each
\* at most once: the exception-encountered metric, the suspension,
\* Initialize, the termination code, the options, (the dialog,) client id and
\* annotations, PrepareNewCrashReport, SetReportID with the staged report's
\* identifier, WriteEverything, the attachments in list order (open, slot,
\* copy), FinishedWritingCrashReport, ReportPending. No attachment is touched
\* before the minidump is written, and the report is finished only after the
\* minidump and every attachment of the list. (Before is a strict order, so
\* it is enough that each call comes right after one that is before it.)
C13_StrictSequence == \A i \in Threads : \A p \in DOMAIN trace[i] : InPlace(i, p)

\* A call went through the whole pipeline, two attachments copied, the upload
\* thread notified.
C13_Witness ==
  \E i \in Threads :
    /\ Returned(i)
    /\ Times(i, "CopyFileContent") = 2
    /\ Did(i, "ReportPending")
    /\ Did(i, "GetClientID")

\* ----------------------------------------------------------------- C14
\* The stage at which the pipeline of call i stopped, read from its calls.
StoppedAt(i) ==
  IF DidFail(i, "Initialize") THEN "kSnapshotFailed"
  ELSE IF DidFail(i, "PrepareNewCrashReport") THEN "kPrepareNewCrashReportFailed"
  ELSE IF DidFail(i, "WriteEverything") THEN "kMinidumpWriteFailed"
  ELSE IF DidFail(i, "FinishedWritingCrashReport") THEN "kFinishedWritingCrashReportFailed"
  ELSE "kSuccess"

\* C14: a call records exactly one capture outcome, before it returns, never
\* a second one; the outcome names the stage that failed (snapshot, prepare,
\* minidump write, finish) or is kSuccess; kSuccess is recorded only when
\* reporting was disabled or FinishedWritingCrashReport succeeded; after a
\* failed FinishedWritingCrashReport the outcome is
\* kFinishedWritingCrashReportFailed and the value returned is the exception
\* code.
C14_OneOutcomePerCall ==
  \A i \in Threads :
    /\ Len(outcomes[i]) <= 1
    /\ Len(outcomes[i]) = Times(i, "ExceptionCaptureResult")
    /\ (retval[i] # <<>>) <=> (Len(outcomes[i]) = 1)
    /\ Returned(i) => Len(outcomes[i]) = 1
    /\ outcomes[i] # <<>> =>
         /\ outcomes[i][1] = StoppedAt(i)
         /\ trace[i][Len(trace[i])].op \in {"ExceptionCaptureResult", "Resume"}
         /\ outcomes[i][1] = "kSuccess" =>
              \/ (DidOk(i, "Initialize") /\ snapshot[i].behavior = "kDisabled")
              \/ DidOk(i, "FinishedWritingCrashReport")
    /\ DidFail(i, "FinishedWritingCrashReport") =>
         /\ outcomes[i] = <<"kFinishedWritingCrashReportFailed">>
         /\ retval[i] = <<snapshot[i].exception>>

\* A call returned after FinishedWritingCrashReport failed with a database
\* error, minidump and attachment written.
C14_Witness ==
  \E i \in Threads :
    /\ Returned(i)
    /\ DidFail(i, "FinishedWritingCrashReport")
    /\ Did(i, "CopyFileContent")
    /\ outcomes[i] = <<"kFinishedWritingCrashReportFailed">>

\* ----------------------------------------------------------------- C15
\* The positions of a call between the start of snapshot acquisition and its
\* terminal state.
Capturing ==
  {"snapshot", "code", "options", "dialog", "pump", "settings", "prepare", "setid",
   "write", "attach", "notify", "success", "scope_exit"}

\* C15: the monitored process is suspended in every state from the start of
\* snapshot acquisition to the terminal state of the call, and it is resumed
\* only after the capture outcome has been recorded.
C15_SuspendedThroughout ==
  \A i \in Threads :
    /\ pc[i] \in Capturing => process[i].suspended
    /\ Did(i, "Initialize") => process[i].suspends = 1
    /\ process[i].resumes > 0 => (pc[i] = "done" /\ Len(outcomes[i]) = 1)

\* The same statement for the calls whose suspension request was granted.
SuspendedThroughoutWhenGranted ==
  \A i \in Threads :
    DidOk(i, "Suspend") =>
      /\ pc[i] \in Capturing => process[i].suspended
      /\ Did(i, "Initialize") => process[i].suspends = 1
      /\ process[i].resumes > 0 => (pc[i] = "done" /\ Len(outcomes[i]) = 1)

\* ----------------------------------------------------------------- C16
\* The client identity of call i was not resolved.
IdentityUnresolved(i) == DidFail(i, "GetSettings") \/ DidFail(i, "GetClientID")

\* C16: when GetSettings returns null or GetClientID fails, the snapshot
\* gets the zero client identity and the call goes on to
\* PrepareNewCrashReport; the outcome it records is decided by the database
\* and the minidump stages alone, and a report whose stages succeed is
\* committed, its minidump carrying the zero identity.
C16_IdentityFailureIsDegradedMode ==
  \A i \in Threads :
    IdentityUnresolved(i) =>
      /\ snapshot[i].client_id = 0
      /\ \E p \in Positions(i, "SetClientID") : trace[i][p] = Ev("SetClientID", TRUE, 0)
      /\ Did(i, "SetAnnotationsSimpleMap")
      /\ pc[i] \notin {"settings", "idle"}
      /\ pc[i] # "prepare" => Did(i, "PrepareNewCrashReport")
      /\ Returned(i) =>
           /\ outcomes[i] = <<StoppedAt(i)>>
           /\ AllStagesSucceeded(i) <=> outcomes[i] = <<"kSuccess">>
           /\ outcomes[i] = <<"kSuccess">> <=> Produced(i)
           /\ retval[i] = <<snapshot[i].exception>>
      /\ \A r \in OwnReports(i) :
           reports[r].dump.status # "empty" => reports[r].dump.client_id = 0

\* A call without a settings object committed a report with the zero identity.
C16_Witness ==
  \E i \in Threads :
    /\ Returned(i)
    /\ DidFail(i, "GetSettings")
    /\ \E r \in OwnReports(i) :
         reports[r].state = "completed" /\ reports[r].dump.client_id = 0

\* A call whose GetClientID failed committed a report as well.
C16_WitnessGetClientID ==
  \E i \in Threads :
    /\ Returned(i)
    /\ DidFail(i, "GetClientID")
    /\ Produced(i)

\* ----------------------------------------------------------------- C17
\* The code points a UTF-8 byte sequence stands for.
RECURSIVE UTF8Decode(_)
UTF8Decode(bytes) ==
  IF bytes = <<>> THEN <<>>
  ELSE LET b == bytes[1]
           n == IF b < 128 THEN 1 ELSE IF b < 224 THEN 2 ELSE IF b < 240 THEN 3 ELSE 4
           cp == IF n = 1 THEN b
                 ELSE IF n = 2 THEN (b - 192) * 64 + (bytes[2] - 128)
                 ELSE IF n = 3
                   THEN (b - 224) * 4096 + (bytes[2] - 128) * 64 + (bytes[3] - 128)
                 ELSE (b - 240) * 262144 + (bytes[2] - 128) * 4096
                      + (bytes[3] - 128) * 64 + (bytes[4] - 128)
       IN <<cp>> \o UTF8Decode(SubSeq(bytes, n + 1, Len(bytes)))

\* The code points a well-formed UTF-16 sequence stands for.
RECURSIVE UTF16Decode(_)
UTF16Decode(units) ==
  IF units = <<>> THEN <<>>
  ELSE IF units[1] >= 55296 /\ units[1] <= 56319
    THEN <<65536 + (units[1] - 55296) * 1024 + (units[2] - 56320)>>
         \o UTF16Decode(SubSeq(units, 3, Len(units)))
  ELSE <<units[1]>> \o UTF16Decode(Tail(units))

\* The attachments of the list for which call i got a slot, in list order.
RECURSIVE SlotsOf(_, _)
SlotsOf(copied, n) ==
  IF n = 0 THEN <<>>
  ELSE SlotsOf(copied, n - 1) \o (IF n \in copied THEN <<n>> ELSE <<>>)

Slots(i, n) == SlotsOf(Copied(i), n)

\* C17: every attachment that was opened and given a slot by AddAttachment is
\* in the report, under its path's base name (the slot's UTF-8 name reads as
\* the characters of the last component of the path) and with all the bytes
\* of its file; the report holds these attachments and no other, in list
\* order, and a committed report holds them complete.
C17_AttachmentNamedAndCopied ==
  \A i \in Threads :
    /\ \A p \in Positions(i, "AddAttachment") :
         trace[i][p].ok =>
           trace[i][p + 1] = Ev("CopyFileContent", TRUE, trace[i][p].arg)
    /\ \A r \in OwnReports(i) :
         LET slots == Slots(i, Len(attachments_))
             atts == reports[r].attachments
         IN /\ Len(atts) = Len(slots)
            /\ \A k \in DOMAIN atts :
                 LET path == attachments_[slots[k]]
                 IN /\ atts[k].source = path
                    /\ UTF8Decode(atts[k].name) = UTF16Decode(path[Len(path)])
                    /\ atts[k].bytes = FileContent(path)

\* A committed report holds two attachments, one from a path of two
\* components.
C17_Witness ==
  \E r \in DOMAIN reports :
    /\ reports[r].state = "completed"
    /\ Len(reports[r].attachments) = 2
    /\ \E k \in 1..2 : Len(reports[r].attachments[k].source) = 2
    /\ \E k \in 1..2 : Len(reports[r].attachments[k].name) = 7

\* ----------------------------------------------------------------- C18
\* How often report r was handed to the upload thread.
NotifiedTimes(r) == Cardinality({k \in DOMAIN pending : pending[k] = r})

\* Call i left its own state and its own reports alone in this step.
Untouched(i) ==
  /\ UNCHANGED <<pc[i], process[i], snapshot[i], termination_code[i], new_report[i],
                 att_index[i], uuid[i], dlg[i], msg[i], retval[i], outcomes[i],
                 trace[i]>>
  /\ \A r \in OwnReports(i) : reports'[r] = reports[r]

\* What holds of every state of two concurrent calls.
Independent ==
  /\ \A i \in Threads :
       /\ retval[i] # <<>> =>
            retval[i] = IF DidFail(i, "Initialize")
                          THEN <<kTerminationCodeSnapshotFailed>>
                          ELSE <<snapshot[i].exception>>
       /\ outcomes[i] # <<>> => outcomes[i] = <<StoppedAt(i)>>
       /\ \A p \in DOMAIN trace[i] :
            trace[i][p].op \in {"SetReportID", "WriteEverything",
                                "FinishedWritingCrashReport", "ReportPending"}
              => /\ trace[i][p].arg \in OwnReports(i)
                 /\ \E q \in 1..(p - 1) :
                      trace[i][q] = Ev("PrepareNewCrashReport", TRUE, trace[i][p].arg)
  /\ \A r \in DOMAIN reports :
       LET o == reports[r].owner
       IN /\ reports[r].state = "completed" <=>
               \E p \in DOMAIN trace[o] :
                 trace[o][p] = Ev("FinishedWritingCrashReport", TRUE, r)
          /\ reports[r].attachments = Kept(o, Times(o, "Open"))
          /\ reports[r].dump.status # "empty" =>
               /\ reports[r].dump.report_id = r
               /\ reports[r].dump.client_id = snapshot[o].client_id
          /\ NotifiedTimes(r) <= 1
          /\ NotifiedTimes(r) = 1 =>
               /\ reports[r].state = "completed"
               /\ \E p \in DOMAIN trace[o] : trace[o][p] = Ev("ReportPending", TRUE, r)
          /\ (upload_thread_ /\ reports[r].state = "completed"
              /\ pc[o] \in {"success", "scope_exit", "done"}) => NotifiedTimes(r) = 1
  /\ \A k \in DOMAIN pending : pending[k] \in DOMAIN reports

\* C18: concurrent calls are independent under every interleaving. No step
\* writes a field of the handler; a step of one call leaves the state and the
\* reports of every other call as they were; the code a call returns and the
\* outcome it records are those of its own snapshot and its own stages; a call
\* writes, finishes and notifies only the report it prepared; a committed
\* report is handed to the upload thread exactly once.
C18_ConcurrentCallsIndependent ==
  /\ []Independent
  /\ [][/\ UNCHANGED handler_fields
        /\ \E i \in Threads : \A j \in Threads \ {i} : Untouched(j)]_vars

\* Two calls ran at once and both committed a report: call 2 prepared its
\* report first, call 1 notified the upload thread first.
C18_Witness ==
  /\ \A i \in ConcThreads : Returned(i) /\ outcomes[i] = <<"kSuccess">>
  /\ Len(reports) = 2
  /\ reports[1].owner = 2
  /\ reports[2].owner = 1
  /\ pending = <<2, 1>>
  /\ retval[1] # retval[2]

\* ----------------------------------------------------------------- C19
\* What C19 says of call i.
DialogOnceBeforeDatabase(i) ==
  /\ Times(i, "ShowReportDialog") <= 1
  /\ \A p \in Positions(i, "ShowReportDialog") :
       /\ DidOk(i, "Initialize")
       /\ snapshot[i].behavior # "kDisabled"
       /\ trace[i][p - 1].op = "GetCrashpadOptions"
       /\ \E q \in 1..(p - 1) : trace[i][q].op = "ExceptionCode"
       /\ termination_code[i] = <<snapshot[i].exception>>
       /\ \A q \in 1..p : trace[i][q].op \notin DatabaseCalls
  /\ Did(i, "GetSettings") => Did(i, "ShowReportDialog")
  /\ (Did(i, "ShowReportDialog") /\ pc[i] \notin {"dialog", "pump"}) =>
       (dlg[i] = "closed" /\ msg[i] = "none")
  /\ retval[i] # <<>> =>
       retval[i] = IF DidFail(i, "Initialize")
                     THEN <<kTerminationCodeSnapshotFailed>>
                     ELSE <<snapshot[i].exception>>
  /\ outcomes[i] # <<>> => outcomes[i] = <<StoppedAt(i)>>

\* C19: ShowReportDialog is called at most once in a call, only after a
\* successful snapshot with a handler behavior other than disabled, after the
\* termination code was read and before any call to the crash database, and
\* the process is suspended for as long as the dialog is up; when the dialog
\* is over nothing of it is left: the code returned, the outcome and the
\* later calls are those of the snapshot and of the stages.
C19_DialogOnceWhileSuspended ==
  \A i \in Threads :
    /\ DialogOnceBeforeDatabase(i)
    /\ pc[i] \in {"dialog", "pump"} => process[i].suspended

\* The same statement without the suspension.
DialogOnce == \A i \in Threads : DialogOnceBeforeDatabase(i)
====
